---- MODULE Spec2Model ----
(***************************************************************************)
(* State-machine model of hairstyle_analyzer/core/excel_exporter.py:       *)
(* ExcelExporter.export (file export) and ExcelExporter.get_binary_data    *)
(* (byte export), with the worksheet they build and the files they touch.  *)
(*                                                                         *)
(* Numbers that the code computes in floating point (column widths) are    *)
(* kept in tenths: (max_length + 2) * 1.1 is the integer (max_length+2)*11 *)
(* tenths.  No integer max_length puts (max_length + 2) * 1.1 on a clamp   *)
(* bound (9 -> 9.9, 10 -> 11, 45 -> 49.5, 46 -> 50.6), so rounding of the  *)
(* float product never changes which side of a bound a width falls on.     *)
(***************************************************************************)
EXTENDS Integers, Sequences, FiniteSets, TLC

\* ------------------------------------------------------------------ bounds
\* longest record list a caller passes
MaxRecords == 2
\* number of export / get_binary_data calls in one behaviour
MaxCalls == 2
\* last second the clock reaches
MaxClock == 1

\* ---------------------------------------------------------------- columns
\* openpyxl's column letters, in column order
Letters == <<"A", "B", "C", "D", "E", "F", "G", "H", "I", "J">>

NumCols == Len(Letters)

Cols == 1..NumCols

\* openpyxl.utils.get_column_letter
get_column_letter(i) == Letters[i]

\* the column a coordinate such as "C1" names (openpyxl's coordinate parsing)
column_index(letter) == CHOOSE i \in Cols : Letters[i] = letter

\* ----------------------------------------------------------------- values
\* a cell value: a str, None or an int
StrVal(s) == [t |-> "str", s |-> s, n |-> 0]

NoneVal == [t |-> "none", s |-> "", n |-> 0]

IntVal(n) == [t |-> "int", s |-> "", n |-> n]

DigitChars == <<"0", "1", "2", "3", "4", "5", "6", "7", "8", "9">>

RECURSIVE Decimal(_)
\* str(n) of a natural number
Decimal(n) == IF n < 10 THEN DigitChars[n + 1]
              ELSE Decimal(n \div 10) \o DigitChars[(n % 10) + 1]

\* Python's str(cell.value)
Str(v) == IF v.t = "str" THEN v.s
          ELSE IF v.t = "none" THEN "None"
          ELSE Decimal(v.n)

\* ----------------------------------------------------------------- styles
DefaultFont == [bold |-> FALSE, size |-> 11, color |-> "default"]

DefaultFill == [fill_type |-> "none", start_color |-> "none", end_color |-> "none"]

DefaultAlignment == [horizontal |-> "general", vertical |-> "bottom", wrap_text |-> FALSE]

DefaultBorder == [left |-> "none", right |-> "none", top |-> "none", bottom |-> "none"]

header_font == [bold |-> TRUE, size |-> 12, color |-> "FFFFFF"]

header_fill == [fill_type |-> "solid", start_color |-> "4472C4", end_color |-> "4472C4"]

header_alignment == [horizontal |-> "center", vertical |-> "center", wrap_text |-> TRUE]

thin_border == [left |-> "thin", right |-> "thin", top |-> "thin", bottom |-> "thin"]

data_alignment == [horizontal |-> "general", vertical |-> "center", wrap_text |-> TRUE]

hashtag_alignment_unwrapped == [horizontal |-> "general", vertical |-> "center", wrap_text |-> FALSE]

\* the alignment re-applied to column H
hashtag_alignment == [horizontal |-> "general", vertical |-> "center", wrap_text |-> TRUE]

hashtag_column == 8

\* ------------------------------------------------------------------ cells
\* The worksheet keeps its cells in a dictionary (row, column) -> cell and its
\* column dimensions in a dictionary column letter -> width: `cells` and
\* `width` are functions whose domains are the keys present.

\* a cell as the worksheet creates it on first access
BlankCell == [value |-> NoneVal, font |-> DefaultFont, fill |-> DefaultFill,
              alignment |-> DefaultAlignment, border |-> DefaultBorder]

\* sheet.cell(row, column) / sheet["A1"]: the cell, created when absent
GetCell(cells, p) == IF p \in DOMAIN cells THEN cells[p] ELSE BlankCell

NoCells == [p \in {} |-> BlankCell]

NoWidths == [l \in {} |-> 0]

\* openpyxl.Workbook().active
NewSheet == [title |-> "Sheet", cells |-> NoCells, width |-> NoWidths]

\* the title export gives the sheet
export_sheet_title == "StyleTitle"

binary_sheet_title_default == "Sheet"

\* the title get_binary_data gives the sheet
binary_sheet_title == "StyleTitle"

\* no workbook: outside a call and before the workbook is created
NoSheet == [title |-> "", cells |-> NoCells, width |-> NoWidths]

Max(S) == CHOOSE x \in S : \A y \in S : y <= x

\* sheet.max_row, 0 for a sheet without cells
max_row(cells) == Max({0} \cup {p[1] : p \in DOMAIN cells})

\* sheet.max_column, 0 for a sheet without cells
max_column(cells) == Max({0} \cup {p[2] : p \in DOMAIN cells})

\* ------------------------------------------------------- config, records
ColumnLetters9 == {"A", "B", "C", "D", "E", "F", "G", "H", "I"}

Labels9 == [l \in ColumnLetters9 |->
              CASE l = "A" -> "Stylist"
                [] l = "B" -> "Coupon"
                [] l = "C" -> "Comment"
                [] l = "D" -> "StyleTitle"
                [] l = "E" -> "Sex"
                [] l = "F" -> "Length"
                [] l = "G" -> "Menu"
                [] l = "H" -> "Hashtag"
                [] l = "I" -> "Image"]

\* the nine-column header mapping the exporter is configured with
Config9 == Labels9

\* header mappings with fewer, with non-contiguous and with more columns
Config2 == [l \in {"A", "B"} |-> Labels9[l]]

ConfigGap == [l \in {"A", "C"} |-> Labels9[l]]

Config10 == [l \in ColumnLetters9 \cup {"J"} |->
               IF l = "J" THEN "Note" ELSE Labels9[l]]

\* ExcelConfig.headers: non-empty, column letter -> label
Configs == {Config9, Config2, ConfigGap, Config10}

\* a ProcessResult: the attributes _add_data reads
RecShort == [selected_stylist |-> [name |-> StrVal("Ann")],
             selected_coupon |-> [name |-> StrVal("Cut10")],
             selected_template |->
               [comment |-> StrVal("soft"), title |-> StrVal("Bob"),
                menu |-> StrVal("Perm"), hashtag |-> StrVal("#short")],
             attribute_analysis |-> [sex |-> StrVal("F"), length |-> StrVal("S")],
             image_name |-> StrVal("a.png")]

RecLong == [selected_stylist |-> [name |-> StrVal("Alexandrina")],
            selected_coupon |-> [name |-> StrVal("Spring campaign 20 percent off")],
            selected_template |->
              [comment |-> StrVal("A layered medium cut with airy movement and a soft finish"),
               title |-> StrVal("Layered medium cut with a see-through fringe"),
               menu |-> StrVal("Cut + Color"),
               hashtag |-> NoneVal],
            attribute_analysis |-> [sex |-> StrVal("Ladies"), length |-> IntVal(12345678)],
            image_name |-> StrVal("style_0001.png")]

Records == {RecShort, RecLong}

\* the list of n records that starts with `first` and alternates
Alternating(n, first) ==
    [i \in 1..n |-> IF i % 2 = 1 THEN first ELSE CHOOSE r \in Records : r # first]

\* the record lists a caller passes: the empty list and the alternating lists
\* of every length up to MaxRecords
ResultLists == {<<>>} \cup {Alternating(n, r) : n \in 1..MaxRecords, r \in Records}

\* ------------------------------------------------------------- _set_headers
SetValue(cells, p, v) ==
    [q \in DOMAIN cells \cup {p} |->
       IF q = p THEN [GetCell(cells, p) EXCEPT !.value = v] ELSE cells[q]]

RECURSIVE SetHeadersLoop(_, _, _)
SetHeadersLoop(cells, headers, todo) ==
    IF todo = {} THEN cells
    ELSE LET col_letter == CHOOSE l \in todo : TRUE
         IN SetHeadersLoop(SetValue(cells, <<1, column_index(col_letter)>>,
                                    StrVal(headers[col_letter])),
                           headers, todo \ {col_letter})

\* ExcelExporter._set_headers
SetHeaders(sheet, headers) ==
    [sheet EXCEPT !.cells = SetHeadersLoop(sheet.cells, headers, DOMAIN headers)]

\* ---------------------------------------------------------------- _add_data
RowValues_MenuHashtagSwapped(result) ==
    [l \in ColumnLetters9 |->
       CASE l = "A" -> result.selected_stylist.name
         [] l = "B" -> result.selected_coupon.name
         [] l = "C" -> result.selected_template.comment
         [] l = "D" -> result.selected_template.title
         [] l = "E" -> result.attribute_analysis.sex
         [] l = "F" -> result.attribute_analysis.length
         [] l = "G" -> result.selected_template.hashtag
         [] l = "H" -> result.selected_template.menu
         [] l = "I" -> result.image_name]

\* the nine assignments of one loop iteration: column letter -> value written
RowValues(result) ==
    [l \in ColumnLetters9 |->
       CASE l = "A" -> result.selected_stylist.name
         [] l = "B" -> result.selected_coupon.name
         [] l = "C" -> result.selected_template.comment
         [] l = "D" -> result.selected_template.title
         [] l = "E" -> result.attribute_analysis.sex
         [] l = "F" -> result.attribute_analysis.length
         [] l = "G" -> result.selected_template.menu
         [] l = "H" -> result.selected_template.hashtag
         [] l = "I" -> result.image_name]

RECURSIVE WriteRow(_, _, _, _)
WriteRow(cells, i, values, todo) ==
    IF todo = {} THEN cells
    ELSE LET l == CHOOSE x \in todo : TRUE
         IN WriteRow(SetValue(cells, <<i, column_index(l)>>, values[l]),
                     i, values, todo \ {l})

RECURSIVE AddDataLoop(_, _, _, _)
\* enumerate(results, start): record k goes to row start + k - 1
AddDataLoop(cells, results, k, start) ==
    IF k > Len(results) THEN cells
    ELSE AddDataLoop(WriteRow(cells, start + k - 1, RowValues(results[k]), ColumnLetters9),
                     results, k + 1, start)

AddData_FromRow1(sheet, results) ==
    [sheet EXCEPT !.cells = AddDataLoop(sheet.cells, results, 1, 1)]

\* ExcelExporter._add_data
AddData(sheet, results) ==
    [sheet EXCEPT !.cells = AddDataLoop(sheet.cells, results, 1, 2)]

\* ---------------------------------------------------- _adjust_column_widths
min_width == 10

max_width == 50

\* sheet.columns: every cell of rows 1..max_row, columns 1..max_column, created
\* on access when the grid position had none
IterColumns(cells) ==
    [p \in (1..max_row(cells)) \X (1..max_column(cells)) |-> GetCell(cells, p)]

RECURSIVE MaxLengthLoop(_, _, _, _, _)
\* the inner loop over one column, rows row..last
MaxLengthLoop(cells, col, row, last, max_length) ==
    IF row > last THEN max_length
    ELSE MaxLengthLoop(cells, col, row + 1, last,
                       IF Len(Str(cells[<<row, col>>].value)) > max_length
                       THEN Len(Str(cells[<<row, col>>].value))
                       ELSE max_length)

Min2(a, b) == IF a < b THEN a ELSE b

Max2(a, b) == IF a > b THEN a ELSE b

AdjustedWidth_Unclamped(max_length) == (max_length + 2) * 11

\* adjusted_width in tenths: max(min_width, min(max_width, (max_length + 2) * 1.1))
AdjustedWidth(max_length) ==
    Max2(min_width * 10, Min2(max_width * 10, (max_length + 2) * 11))

\* ExcelExporter._adjust_column_widths
AdjustColumnWidths(sheet) ==
    LET cells == IterColumns(sheet.cells)
        last == max_row(sheet.cells)
    IN [sheet EXCEPT
          !.cells = cells,
          !.width = [column_letter \in DOMAIN sheet.width \cup
                                       {get_column_letter(c) : c \in 1..max_column(sheet.cells)} |->
                       IF column_index(column_letter) <= max_column(sheet.cells)
                       THEN AdjustedWidth(MaxLengthLoop(cells, column_index(column_letter),
                                                        1, last, 0))
                       ELSE sheet.width[column_letter]]]

\* ------------------------------------------------------------ _apply_styles
HeaderStyled(cell) ==
    [cell EXCEPT !.font = header_font, !.fill = header_fill,
                 !.alignment = header_alignment, !.border = thin_border]

DataStyled(cell, col) ==
    [cell EXCEPT !.alignment = IF col = hashtag_column THEN hashtag_alignment
                               ELSE data_alignment,
                 !.border = thin_border]

\* ExcelExporter._apply_styles: range(1, len(headers) + 1) in row 1 and in rows
\* range(2, row_count + 2)
ApplyStyles(sheet, headers, row_count) ==
    LET styled == (1..(row_count + 1)) \X (1..Cardinality(DOMAIN headers))
    IN [sheet EXCEPT !.cells =
          [p \in DOMAIN sheet.cells \cup styled |->
             IF p \in styled
             THEN IF p[1] = 1 THEN HeaderStyled(GetCell(sheet.cells, p))
                  ELSE DataStyled(GetCell(sheet.cells, p), p[2])
             ELSE sheet.cells[p]]]

\* ------------------------------------------------------------ file system
\* file contents: the file that was at the output path before any call, a
\* file a failed write left behind, a freshly created empty file, and a
\* workbook as workbook.save serializes it
Original == [kind |-> "original"]

Partial == [kind |-> "partial"]

Empty == [kind |-> "empty"]

Serialized(sheet) == [kind |-> "xlsx", sheet |-> sheet]

\* what a history variable holds when there was no file
NoFile == [kind |-> "absent"]

\* output_path: its stem and suffix
OutputPath == [stem |-> "result", suffix |-> ".xlsx"]

PathName(path) == path.stem \o path.suffix

TwoDigits(n) == IF n < 10 THEN "0" \o Decimal(n) ELSE Decimal(n)

\* datetime.now().strftime("%Y%m%d_%H%M%S") in second t of the modelled
\* minute: the format has no field finer than the second
Timestamp(t) == "20261101_0000" \o TwoDigits(t)

BackupName_NoSuffix(path, timestamp) ==
    path.stem \o "_" \o timestamp \o path.suffix

\* file_path.with_name(f"{stem}_{timestamp}_backup{suffix}")
BackupName(path, timestamp) ==
    path.stem \o "_" \o timestamp \o "_backup" \o path.suffix

\* the names tempfile.NamedTemporaryFile(suffix='.xlsx') draws from
TmpName(k) == "tmp" \o Decimal(k) \o ".xlsx"

TmpNames == {TmpName(k) : k \in 1..(MaxCalls + 1)}

\* NamedTemporaryFile never reuses the name of an existing file
FreshTmpName(files) ==
    TmpName(CHOOSE k \in 1..(MaxCalls + 1) :
              /\ TmpName(k) \notin DOMAIN files
              /\ \A j \in 1..(k - 1) : TmpName(j) \in DOMAIN files)

Exists(files, name) == name \in DOMAIN files

\* a write that replaces or creates `name`
WriteFile(files, name, content) ==
    [n \in DOMAIN files \cup {name} |-> IF n = name THEN content ELSE files[n]]

\* os.unlink
Unlink(files, name) == [n \in DOMAIN files \ {name} |-> files[n]]

\* shutil.copy2(src, dst)
CopyFile(files, src, dst) == WriteFile(files, dst, files[src])

\* ------------------------------------------------------------------ errors
NoError == [type |-> "", output_path |-> ""]

OSError == [type |-> "OSError", output_path |-> ""]

SaveError_NoPath(path) == [type |-> "ExcelExportError", output_path |-> ""]

\* ExcelExportError(..., output_path=str(output_path)) of export's except block
SaveError(path) == [type |-> "ExcelExportError", output_path |-> PathName(path)]

\* ExcelExportError(...) of get_binary_data's except block
BinaryError == [type |-> "ExcelExportError", output_path |-> ""]

\* @with_error_handling(ExcelExportError, ...) around export: an
\* ExcelExportError passes, any other exception becomes an ExcelExportError
\* that names the target path
with_error_handling(error, path) ==
    IF error.type = "ExcelExportError" THEN error
    ELSE [type |-> "ExcelExportError", output_path |-> PathName(path)]

CleanupOnError_Keep(files, tmp) == files

\* get_binary_data's except block: the temp file is removed when tmp_path is
\* bound and the file exists
CleanupOnError(files, tmp) ==
    IF tmp # "" /\ Exists(files, tmp) THEN Unlink(files, tmp) ELSE files

\* ------------------------------------------------------------------- state
VARIABLES
    config,       \* self.config.headers
    results,      \* the record list the caller passes
    now,          \* the clock at its last reading, in whole seconds
    parent_dir,   \* output_path.parent exists
    files,        \* the files on disk: name -> content
    pc,           \* position in the running call, "idle" between calls
    workbook,     \* the sheet of the running call
    tmp_path,     \* get_binary_data's tmp_path, "" while unbound
    binary_data,  \* get_binary_data's binary_data
    backup_path,  \* the backup path the current or last call computed, "" if none
    outcome,      \* how the last call ended
    calls,        \* calls started
    pre,          \* content at the output path when the current or last call, an
                  \* export, began; NoFile otherwise
    io,           \* how mkdir, backup copy and save went in the current or last call
    bin_io,       \* how temp file, save and read went in the current or last call
    steps,        \* construction steps the running call has run
    built,        \* per operation, the steps and sheet handed to workbook.save
    overwritten   \* contents that successful export calls overwrote

vars == <<config, results, now, parent_dir, files, pc, workbook, tmp_path,
          binary_data, backup_path, outcome, calls, pre, io, bin_io, steps,
          built, overwritten>>

NoOutcome == [op |-> "none", kind |-> "none", value |-> "", data |-> NoFile,
              error |-> NoError]

Returned(op, value, data) ==
    [op |-> op, kind |-> "return", value |-> value, data |-> data, error |-> NoError]

Raised(op, error) ==
    [op |-> op, kind |-> "raise", value |-> "", data |-> NoFile, error |-> error]

NoIo == [mkdir |-> "none", backup |-> "none", save |-> "none"]

NoBinIo == [tmp |-> "none", save |-> "none", read |-> "none"]

NotBuilt == [done |-> FALSE, steps |-> <<>>, sheet |-> NoSheet]

Init ==
    /\ config \in Configs
    /\ results \in ResultLists
    /\ now = 0
    /\ parent_dir \in BOOLEAN
    /\ files \in {[n \in {} |-> Original]} \cup
                 (IF parent_dir THEN {[n \in {PathName(OutputPath)} |-> Original]} ELSE {})
    /\ pc = "idle"
    /\ workbook = NoSheet
    /\ tmp_path = ""
    /\ binary_data = NoFile
    /\ backup_path = ""
    /\ outcome = NoOutcome
    /\ calls = 0
    /\ pre = NoFile
    /\ io = NoIo
    /\ bin_io = NoBinIo
    /\ steps = <<>>
    /\ built = [o \in {"export", "bytes"} |-> NotBuilt]
    /\ overwritten = {}

\* the end of a call: the locals are gone
EndCall(result) ==
    /\ pc' = "idle"
    /\ outcome' = result
    /\ workbook' = NoSheet
    /\ tmp_path' = ""
    /\ binary_data' = NoFile
    /\ steps' = <<>>

\* ------------------------------------------------------------------ export
\* a caller invokes export(results, output_path)
ExportCall ==
    /\ pc = "idle"
    /\ calls < MaxCalls
    /\ calls' = calls + 1
    /\ pc' = "ex_mkdir"
    /\ pre' = IF Exists(files, PathName(OutputPath))
              THEN files[PathName(OutputPath)] ELSE NoFile
    /\ io' = NoIo
    /\ bin_io' = NoBinIo
    /\ backup_path' = ""
    /\ outcome' = NoOutcome
    /\ steps' = <<>>
    /\ UNCHANGED <<config, results, now, parent_dir, files, workbook, tmp_path,
                   binary_data, built, overwritten>>

\* output_path.parent.mkdir(parents=True, exist_ok=True)
ExportMkdir ==
    /\ pc = "ex_mkdir"
    /\ \/ /\ parent_dir' = TRUE
          /\ io' = [io EXCEPT !.mkdir = "ok"]
          /\ pc' = "ex_backup"
          /\ UNCHANGED <<outcome, workbook, tmp_path, binary_data, steps>>
       \/ /\ ~parent_dir
          /\ io' = [io EXCEPT !.mkdir = "failed"]
          /\ EndCall(Raised("export", with_error_handling(OSError, OutputPath)))
          /\ UNCHANGED parent_dir
    /\ UNCHANGED <<bin_io, config, results, now, files, backup_path, calls, pre, built,
                   overwritten>>

CreateBackup_Truncated(fs, path, tick) ==
    WriteFile(fs, BackupName(path, Timestamp(tick)), Empty)

\* ExcelExporter._create_backup: the files after a copy that succeeds
CreateBackup(fs, path, tick) ==
    CopyFile(fs, PathName(path), BackupName(path, Timestamp(tick)))

\* if output_path.exists(): backup_path = self._create_backup(output_path).
\* datetime.now() is the only reading of the clock: it returns the second of
\* the last reading or a later one
ExportBackup ==
    /\ pc = "ex_backup"
    /\ IF Exists(files, PathName(OutputPath))
       THEN /\ now' \in now..MaxClock
            /\ backup_path' = BackupName(OutputPath, Timestamp(now'))
            /\ \/ /\ files' = CreateBackup(files, OutputPath, now')
                  /\ io' = [io EXCEPT !.backup = "ok"]
                  /\ pc' = "ex_new"
                  /\ UNCHANGED <<outcome, workbook, tmp_path, binary_data, steps>>
               \/ /\ files' \in {files, WriteFile(files, backup_path', Partial)}
                  /\ io' = [io EXCEPT !.backup = "failed"]
                  /\ EndCall(Raised("export", with_error_handling(OSError, OutputPath)))
       ELSE /\ pc' = "ex_new"
            /\ UNCHANGED <<now, files, backup_path, io, outcome, workbook, tmp_path,
                           binary_data, steps>>
    /\ UNCHANGED <<bin_io, config, results, parent_dir, calls, pre, built, overwritten>>

\* a construction step of export: the sheet becomes `sheet`
ExportStep(from, to, name, sheet) ==
    /\ pc = from
    /\ pc' = to
    /\ workbook' = sheet
    /\ steps' = Append(steps, name)
    /\ UNCHANGED <<bin_io, config, results, now, parent_dir, files, tmp_path, binary_data,
                   backup_path, outcome, calls, pre, io, built, overwritten>>

\* workbook = openpyxl.Workbook(); sheet.title = ...
ExportNewWorkbook ==
    ExportStep("ex_new", "ex_headers", "new_workbook",
               [NewSheet EXCEPT !.title = export_sheet_title])

ExportSetHeaders ==
    ExportStep("ex_headers", "ex_data", "set_headers", SetHeaders(workbook, config))

ExportAddData ==
    ExportStep("ex_data", "ex_widths", "add_data", AddData(workbook, results))

ExportAdjustColumnWidths ==
    ExportStep("ex_widths", "ex_styles", "adjust_column_widths",
               AdjustColumnWidths(workbook))

ExportApplyStyles ==
    ExportStep("ex_styles", "ex_save", "apply_styles",
               ApplyStyles(workbook, config, Len(results)))

\* workbook.save(output_path), its return and its except block
ExportSave ==
    /\ pc = "ex_save"
    /\ built' = [built EXCEPT !["export"] =
                   [done |-> TRUE, steps |-> steps, sheet |-> workbook]]
    /\ \/ /\ files' = WriteFile(files, PathName(OutputPath), Serialized(workbook))
          /\ io' = [io EXCEPT !.save = "ok"]
          /\ overwritten' = IF pre = NoFile THEN overwritten
                            ELSE overwritten \cup {pre}
          /\ EndCall(Returned("export", PathName(OutputPath), NoFile))
       \/ /\ files' \in {files, WriteFile(files, PathName(OutputPath), Partial)}
          /\ io' = [io EXCEPT !.save = "failed"]
          /\ EndCall(Raised("export",
                            with_error_handling(SaveError(OutputPath), OutputPath)))
          /\ UNCHANGED overwritten
    /\ UNCHANGED <<bin_io, config, results, now, parent_dir, backup_path, calls, pre>>

\* --------------------------------------------------------- get_binary_data
\* a caller invokes get_binary_data(results)
BinaryCall ==
    /\ pc = "idle"
    /\ calls < MaxCalls
    /\ calls' = calls + 1
    /\ pc' = "bin_new"
    /\ outcome' = NoOutcome
    /\ io' = NoIo
    /\ bin_io' = NoBinIo
    /\ pre' = NoFile
    /\ backup_path' = ""
    /\ steps' = <<>>
    /\ UNCHANGED <<config, results, now, parent_dir, files, workbook, tmp_path,
                   binary_data, built, overwritten>>

\* a construction step of get_binary_data: the sheet becomes `sheet`
BinaryStep(from, to, name, sheet) ==
    /\ pc = from
    /\ pc' = to
    /\ workbook' = sheet
    /\ steps' = Append(steps, name)
    /\ UNCHANGED <<bin_io, config, results, now, parent_dir, files, tmp_path, binary_data,
                   backup_path, outcome, calls, pre, io, built, overwritten>>

BinaryNewWorkbook ==
    BinaryStep("bin_new", "bin_headers", "new_workbook",
               [NewSheet EXCEPT !.title = binary_sheet_title])

BinarySetHeaders ==
    BinaryStep("bin_headers", "bin_data", "set_headers", SetHeaders(workbook, config))

BinaryAddData ==
    BinaryStep("bin_data", "bin_widths", "add_data", AddData(workbook, results))

BinaryAdjustColumnWidths ==
    BinaryStep("bin_widths", "bin_styles", "adjust_column_widths",
               AdjustColumnWidths(workbook))

BinaryApplyStyles ==
    BinaryStep("bin_styles", "bin_tmp", "apply_styles",
               ApplyStyles(workbook, config, Len(results)))

\* the except block of get_binary_data, entered with the files as `fs` and
\* tmp_path as `tmp`
BinaryExcept(fs, tmp) ==
    /\ files' = CleanupOnError(fs, tmp)
    /\ EndCall(Raised("bytes", BinaryError))

\* with tempfile.NamedTemporaryFile(suffix='.xlsx', delete=False) as tmp:
\*     tmp_path = tmp.name
BinaryTempFile ==
    /\ pc = "bin_tmp"
    /\ \/ /\ files' = WriteFile(files, FreshTmpName(files), Empty)
          /\ tmp_path' = FreshTmpName(files)
          /\ bin_io' = [bin_io EXCEPT !.tmp = "ok"]
          /\ pc' = "bin_save"
          /\ UNCHANGED <<outcome, workbook, binary_data, steps>>
       \/ \* the file could not be created: tmp_path stays unbound
          /\ bin_io' = [bin_io EXCEPT !.tmp = "failed"]
          /\ BinaryExcept(files, "")
       \/ \* the file was created, leaving the with block raised
          /\ bin_io' = [bin_io EXCEPT !.tmp = "failed"]
          /\ BinaryExcept(WriteFile(files, FreshTmpName(files), Empty),
                          FreshTmpName(files))
    /\ UNCHANGED <<io, config, results, now, parent_dir, backup_path, calls, pre,
                   built, overwritten>>

\* workbook.save(tmp_path)
BinarySave ==
    /\ pc = "bin_save"
    /\ built' = [built EXCEPT !["bytes"] =
                   [done |-> TRUE, steps |-> steps, sheet |-> workbook]]
    /\ \/ /\ files' = WriteFile(files, tmp_path, Serialized(workbook))
          /\ bin_io' = [bin_io EXCEPT !.save = "ok"]
          /\ pc' = "bin_read"
          /\ UNCHANGED <<outcome, workbook, tmp_path, binary_data, steps>>
       \/ /\ bin_io' = [bin_io EXCEPT !.save = "failed"]
          /\ \E fs \in {files, WriteFile(files, tmp_path, Partial)} :
                BinaryExcept(fs, tmp_path)
    /\ UNCHANGED <<io, config, results, now, parent_dir, backup_path, calls, pre,
                   overwritten>>

\* with open(tmp_path, 'rb') as f: binary_data = f.read()
BinaryRead ==
    /\ pc = "bin_read"
    /\ \/ /\ binary_data' = files[tmp_path]
          /\ bin_io' = [bin_io EXCEPT !.read = "ok"]
          /\ pc' = "bin_unlink"
          /\ UNCHANGED <<files, outcome, workbook, tmp_path, steps>>
       \/ /\ bin_io' = [bin_io EXCEPT !.read = "failed"]
          /\ BinaryExcept(files, tmp_path)
    /\ UNCHANGED <<io, config, results, now, parent_dir, backup_path, calls, pre,
                   built, overwritten>>

\* os.unlink(tmp_path); return binary_data.  Removing the closed file the
\* call itself created is taken to succeed, here and in the except block.
BinaryUnlink ==
    /\ pc = "bin_unlink"
    /\ files' = Unlink(files, tmp_path)
    /\ outcome' = Returned("bytes", "", binary_data)
    /\ pc' = "idle"
    /\ workbook' = NoSheet
    /\ tmp_path' = ""
    /\ binary_data' = NoFile
    /\ steps' = <<>>
    /\ UNCHANGED <<bin_io, config, results, now, parent_dir, backup_path, calls, pre, io,
                   built, overwritten>>

\* ------------------------------------------------------------ specification
Next ==
    \/ ExportCall
    \/ ExportMkdir
    \/ ExportBackup
    \/ ExportNewWorkbook
    \/ ExportSetHeaders
    \/ ExportAddData
    \/ ExportAdjustColumnWidths
    \/ ExportApplyStyles
    \/ ExportSave
    \/ BinaryCall
    \/ BinaryNewWorkbook
    \/ BinarySetHeaders
    \/ BinaryAddData
    \/ BinaryAdjustColumnWidths
    \/ BinaryApplyStyles
    \/ BinaryTempFile
    \/ BinarySave
    \/ BinaryRead
    \/ BinaryUnlink

Spec == Init /\ [][Next]_vars

\* ------------------------------------------------------------------ claims
ContentAt(fs, name) == IF name \in DOMAIN fs THEN fs[name] ELSE NoFile

\* the sheet has been through headers (and possibly later steps)
AfterHeaders ==
    pc \in {"ex_data", "ex_widths", "ex_styles", "ex_save",
            "bin_data", "bin_widths", "bin_styles", "bin_tmp", "bin_save",
            "bin_read", "bin_unlink"}

\* the sheet has been through the width pass
AfterWidths ==
    pc \in {"ex_styles", "ex_save", "bin_styles", "bin_tmp", "bin_save",
            "bin_read", "bin_unlink"}

\* the sheet has been through headers, data, widths and styles
AfterPipeline == pc \in {"ex_save", "bin_tmp", "bin_save", "bin_read", "bin_unlink"}

\* C1: when a get_binary_data call has ended, by return or by raise, after
\* the save or the read-back failed or not, no temporary file is on disk.
C1_NoTransientFileLeft ==
    pc = "idle" => DOMAIN files \cap TmpNames = {}

\* a byte export whose temp file was created and written and whose read-back
\* failed has ended
C1_Witness ==
    /\ pc = "idle"
    /\ outcome.op = "bytes"
    /\ outcome.kind = "raise"
    /\ bin_io.tmp = "ok"
    /\ bin_io.save = "ok"
    /\ bin_io.read = "failed"

IsBackupPattern(name) ==
    \E t \in 0..MaxClock :
        name = OutputPath.stem \o "_" \o Timestamp(t) \o "_backup" \o OutputPath.suffix

\* C2: a successful export over an existing file leaves a backup named
\* <stem>_<timestamp>_backup<ext> whose content is the target's content from
\* before the call, and whenever a step of such a call changes the target the
\* backup already holds that content.
C2_BackupBeforeOverwrite ==
    /\ [](pc = "idle" /\ outcome.op = "export" /\ outcome.kind = "return"
          /\ pre # NoFile
          => /\ IsBackupPattern(backup_path)
             /\ ContentAt(files, backup_path) = pre)
    /\ [][pre # NoFile
          /\ ContentAt(files', PathName(OutputPath)) # ContentAt(files, PathName(OutputPath))
          => /\ backup_path # ""
             /\ ContentAt(files, backup_path) = pre]_vars

\* a second export has returned after overwriting the workbook of the first
C2_Witness ==
    /\ pc = "idle"
    /\ outcome.op = "export"
    /\ outcome.kind = "return"
    /\ pre.kind = "xlsx"
    /\ ContentAt(files, PathName(OutputPath)).kind = "xlsx"

\* the nine fields of a record in column order
Fields(r) ==
    <<r.selected_stylist.name, r.selected_coupon.name, r.selected_template.comment,
      r.selected_template.title, r.attribute_analysis.sex, r.attribute_analysis.length,
      r.selected_template.menu, r.selected_template.hashtag, r.image_name>>

\* C3: with the nine-column config, after the pipeline row k+1 holds record
\* k's nine fields in columns 1..9 in the fixed order, and the sheet ends at
\* row N+1: no cell lies beyond it.
C3_DataRows ==
    AfterPipeline /\ config = Config9 =>
        /\ \A k \in 1..Len(results) :
              /\ \A c \in 1..9 : <<k + 1, c>> \in DOMAIN workbook.cells
              /\ [c \in 1..9 |-> workbook.cells[<<k + 1, c>>].value] = Fields(results[k])
        /\ \A p \in DOMAIN workbook.cells : p[1] <= Len(results) + 1
        /\ max_row(workbook.cells) = Len(results) + 1

\* two different records have been written under the nine-column config
C3_Witness ==
    /\ pc = "ex_save"
    /\ config = Config9
    /\ Len(results) = 2
    /\ results[1] # results[2]

\* C4: from the header step on, through data, widths and styles, row 1 holds
\* at every column the config maps exactly the config's label.
C4_HeaderRow ==
    AfterHeaders =>
        \A l \in DOMAIN config :
            /\ <<1, column_index(l)>> \in DOMAIN workbook.cells
            /\ workbook.cells[<<1, column_index(l)>>].value = StrVal(config[l])

\* the pipeline has finished on a non-contiguous config with records
C4_Witness ==
    /\ AfterPipeline
    /\ config = ConfigGap
    /\ Len(results) >= 1

\* the longest stringified value in column c
MaxLength(cells, c) ==
    Max({Len(Str(cells[p].value)) : p \in {q \in DOMAIN cells : q[2] = c}})

UnclampedWidth(cells, c) == (MaxLength(cells, c) + 2) * 11

UsedColumns(cells) == {p[2] : p \in DOMAIN cells}

\* C5: after the width pass each column with a cell has the width
\* clamp((maxLength + 2) * 1.1, 10, 50) (here in tenths), which lies in
\* [10, 50], and of two columns with unclamped widths inside the bounds the
\* one with the longer maxLength is the wider.
C5_ColumnWidths ==
    AfterWidths =>
        LET cells == workbook.cells
            width == workbook.width
        IN /\ \A c \in UsedColumns(cells) :
                 /\ Letters[c] \in DOMAIN width
                 /\ width[Letters[c]] = IF UnclampedWidth(cells, c) < 100 THEN 100
                                        ELSE IF UnclampedWidth(cells, c) > 500 THEN 500
                                        ELSE UnclampedWidth(cells, c)
                 /\ width[Letters[c]] >= 100
                 /\ width[Letters[c]] <= 500
           /\ \A c1, c2 \in UsedColumns(cells) :
                 /\ UnclampedWidth(cells, c1) \in 100..500
                 /\ UnclampedWidth(cells, c2) \in 100..500
                 /\ MaxLength(cells, c1) < MaxLength(cells, c2)
                 => width[Letters[c1]] < width[Letters[c2]]

\* a sheet with a column at the lower bound, one at the upper bound, and two
\* of different widths in between
C5_Witness ==
    /\ AfterWidths
    /\ \E a, b, c, d \in DOMAIN workbook.width :
          /\ workbook.width[a] = 100
          /\ UnclampedWidth(workbook.cells, column_index(a)) < 100
          /\ workbook.width[b] = 500
          /\ UnclampedWidth(workbook.cells, column_index(b)) > 500
          /\ 100 < workbook.width[c]
          /\ workbook.width[c] < workbook.width[d]
          /\ workbook.width[d] < 500

ConstructionSteps ==
    <<"new_workbook", "set_headers", "add_data", "adjust_column_widths", "apply_styles">>

\* C7: for the same config and records, export and get_binary_data run the
\* same construction steps in the same order and hand the same sheet (title,
\* cell values, styles, widths) to workbook.save, and the bytes returned are
\* the serialization of that sheet.
C7_SamePipeline ==
    /\ built["export"].done /\ built["bytes"].done
       => /\ built["export"].steps = ConstructionSteps
          /\ built["bytes"].steps = built["export"].steps
          /\ built["bytes"].sheet = built["export"].sheet
    /\ pc = "idle" /\ outcome.op = "bytes" /\ outcome.kind = "return"
       /\ built["export"].done
       => outcome.data = Serialized(built["export"].sheet)

\* both operations have serialized a two-record sheet and the byte export
\* has returned
C7_Witness ==
    /\ built["export"].done
    /\ built["bytes"].done
    /\ pc = "idle"
    /\ outcome.op = "bytes"
    /\ outcome.kind = "return"
    /\ Len(results) = 2

\* C8: during an export call on a path that held a file, and after it until
\* the next call begins, that file's content is on disk at the output path
\* or at the call's backup path;
\* a failed backup copy leaves the target as it was, and after a failed save
\* the backup holds the content.
C8_OriginalRecoverable ==
    pre # NoFile =>
        /\ \/ ContentAt(files, PathName(OutputPath)) = pre
           \/ backup_path # "" /\ ContentAt(files, backup_path) = pre
        /\ io.backup = "failed" => ContentAt(files, PathName(OutputPath)) = pre
        /\ io.save = "failed" => backup_path # "" /\ ContentAt(files, backup_path) = pre

\* an export over an existing file failed in the save and left a broken target
C8_Witness ==
    /\ pc = "idle"
    /\ pre # NoFile
    /\ io.save = "failed"
    /\ ContentAt(files, PathName(OutputPath)) = Partial

HasHeaderStyle(cell) ==
    /\ cell.font = [bold |-> TRUE, size |-> 12, color |-> "FFFFFF"]
    /\ cell.fill = [fill_type |-> "solid", start_color |-> "4472C4", end_color |-> "4472C4"]
    /\ cell.alignment = [horizontal |-> "center", vertical |-> "center", wrap_text |-> TRUE]
    /\ cell.border = [left |-> "thin", right |-> "thin", top |-> "thin", bottom |-> "thin"]

HasDataStyle(cell) ==
    /\ cell.font = DefaultFont
    /\ cell.fill = DefaultFill
    /\ cell.alignment = [horizontal |-> "general", vertical |-> "center", wrap_text |-> TRUE]
    /\ cell.border = [left |-> "thin", right |-> "thin", top |-> "thin", bottom |-> "thin"]

columnCount == Cardinality(DOMAIN config)

HeaderRange == {1} \X (1..columnCount)

DataRange == (2..(Len(results) + 1)) \X (1..columnCount)

\* the cells the header pass and the nine-field data pass write
WrittenCells ==
    {<<1, column_index(l)>> : l \in DOMAIN config} \cup
    ((2..(Len(results) + 1)) \X (1..9))

\* a cell carries the header style exactly in row 1, columns 1..columnCount,
\* and the data style exactly in rows 2..N+1, columns 1..columnCount
StyledExactly ==
    /\ HeaderRange \cup DataRange \subseteq DOMAIN workbook.cells
    /\ \A p \in DOMAIN workbook.cells :
          /\ HasHeaderStyle(workbook.cells[p]) <=> p \in HeaderRange
          /\ HasDataStyle(workbook.cells[p]) <=> p \in DataRange

\* C9 as stated: after the style pass the header and data styles lie exactly
\* on their ranges (column 8 like every data column) and every written cell
\* is styled, for every config.
C9_AsStated ==
    AfterPipeline =>
        /\ StyledExactly
        /\ WrittenCells \subseteq HeaderRange \cup DataRange

\* C9 amended: the styles lie exactly on their ranges for every config; every
\* written cell is styled when the config's columns are 1..columnCount and,
\* with at least one record, columnCount >= 9.
C9_Styles ==
    AfterPipeline =>
        /\ StyledExactly
        /\ {column_index(l) : l \in DOMAIN config} = 1..columnCount
           /\ (Len(results) = 0 \/ columnCount >= 9)
           => WrittenCells \subseteq HeaderRange \cup DataRange

\* the style pass has run over two records under the nine-column config
C9_Witness ==
    /\ AfterPipeline
    /\ config = Config9
    /\ Len(results) = 2
    /\ HasDataStyle(workbook.cells[<<3, hashtag_column>>])

\* C10: every content a successful export overwrote is still held by some
\* backup file.
C10_NoBackupReplaced ==
    \A c \in overwritten :
        \E n \in DOMAIN files : IsBackupPattern(n) /\ files[n] = c

====
